---- MODULE Spec2Model ----
(***************************************************************************)
(* Model of news_utube2.py: the Streamlit script main() and the three      *)
(* collaborator wrappers get_videos, get_transcript and summarize_text.    *)
(* One behaviour is a sequence of script runs (Streamlit reruns main() on  *)
(* every interaction); summaries.txt is the only state that outlives a     *)
(* run.  Every collaborator answer is chosen by the environment at the     *)
(* moment of the call and recorded in the call log `calls`.                *)
(***************************************************************************)
EXTENDS Integers, Sequences, FiniteSets, TLC

VARIABLES
    pc,          \* position of the script
    api_key,     \* st.sidebar.text_input("Enter your YouTube API Key")
    query,       \* st.sidebar.text_input("Enter the search query")
    num_videos,  \* st.sidebar.number_input("Number of videos")
    button,      \* st.sidebar.button("Fetch and Summarize Videos")
    items,       \* search_response['items'] inside get_videos
    idx,         \* position of the for loop of get_videos (1-based)
    videos,      \* the list `videos` (local of get_videos, then of main)
    i,           \* position of the for loop of main (1-based)
    transcript,  \* the local `transcript` of main
    summaries,   \* the list `summaries` of main
    file,        \* summaries.txt
    file_before, \* summaries.txt as it was when the current run started
    calls        \* collaborator calls issued by the current run, in order

vars == <<pc, api_key, query, num_videos, button, items, idx, videos, i,
          transcript, summaries, file, file_before, calls>>

(***************************************************************************)
(* Bounds and program constants                                            *)
(***************************************************************************)
\* largest value of the "Number of videos" input that is explored
MaxVideos == 2

\* the popularity threshold of line 38
Threshold == 10000

(***************************************************************************)
(* Values exchanged with the collaborators                                 *)
(***************************************************************************)
\* How a collaborator call can fail: googleapiclient's HttpError, or any
\* other exception (socket error, KeyError / ValueError / IndexError on a
\* malformed response, ...).
Failures == {"HttpError", "Exception"}

VideoIdOf(k) == "v" \o ToString(k)
TitleOf(k) == "Title " \o ToString(k)
ThumbOf(k) == "http://img/" \o ToString(k)

\* item['snippet']['liveBroadcastContent']
LiveFlags == {"none", "upcoming", "live"}

\* the k-th item of a search response
SearchItem(k, live) ==
    [videoId |-> VideoIdOf(k), title |-> TitleOf(k),
     liveBroadcastContent |-> live, thumbnail |-> ThumbOf(k)]

ItemLists(n) ==
    UNION { { [k \in 1..m |-> SearchItem(k, f[k])] : f \in [1..m -> LiveFlags] }
            : m \in 0..n }

\* youtube.search().list(...).execute(): at most maxResults items, or a failure
SearchResponses(n) ==
    { [kind |-> "ok", items |-> s] : s \in ItemLists(n) }
    \cup { [kind |-> f, items |-> <<>>] : f \in Failures }

\* the viewCount strings the statistics collaborator is made to answer
ViewCountTexts ==
    { <<"1", "0", "0", "0", "0">>, <<"1", "0", "0", "0", "1">>, <<"N", "/", "A">> }

\* youtube.videos().list(part="statistics").execute():
\* found = FALSE is an empty 'items' list, has = FALSE a statistics object
\* without viewCount
StatsResponses ==
    { [kind |-> f, found |-> FALSE, has |-> FALSE, viewCount |-> <<>>] : f \in Failures }
    \cup { [kind |-> "ok", found |-> FALSE, has |-> FALSE, viewCount |-> <<>>],
           [kind |-> "ok", found |-> TRUE, has |-> FALSE, viewCount |-> <<>>] }
    \cup { [kind |-> "ok", found |-> TRUE, has |-> TRUE, viewCount |-> t] : t \in ViewCountTexts }

\* YouTubeTranscriptApi.get_transcript(video_id): the 'text' of each entry
TranscriptResponses ==
    { [kind |-> f, texts |-> <<>>] : f \in Failures }
    \cup { [kind |-> "ok", texts |-> t] : t \in { <<>>, <<"Hello", "world">> } }

\* client.chat.completions.create(...): choices[0].message.content
SummaryResponses ==
    { [kind |-> f, content |-> ""] : f \in Failures }
    \cup { [kind |-> "ok", content |-> "A summary."] }

(***************************************************************************)
(* Pure helpers of the script                                              *)
(***************************************************************************)
Digits == <<"0", "1", "2", "3", "4", "5", "6", "7", "8", "9">>

IsDigit(c) == \E d \in 1..10 : Digits[d] = c

DigitVal(c) == (CHOOSE d \in 1..10 : Digits[d] = c) - 1

\* int(s) raises ValueError unless s is a non-empty string of digits
IsIntText(s) == Len(s) > 0 /\ \A k \in 1..Len(s) : IsDigit(s[k])

RECURSIVE IntOfText(_)
IntOfText(s) ==
    IF s = <<>> THEN 0
    ELSE 10 * IntOfText(SubSeq(s, 1, Len(s) - 1)) + DigitVal(s[Len(s)])

\* line 36, int(statistics.get('viewCount', 0)), where it does not raise
ViewCountOf(resp) == IF resp.has THEN IntOfText(resp.viewCount) ELSE 0

\* line 36 raises ValueError
ViewCountRaises(resp) == resp.has /\ ~IsIntText(resp.viewCount)

\* line 25
NotLive(item) == item.liveBroadcastContent # "live"

PassesThresholdGE(view_count) == view_count >= Threshold

\* line 38
PassesThreshold(view_count) == view_count > Threshold

\* lines 39-44
Descriptor(item, view_count) ==
    [title |-> item.title, video_id |-> item.videoId,
     view_count |-> view_count, thumbnail |-> item.thumbnail]

\* line 55, " ".join(...)
RECURSIVE JoinTexts(_)
JoinTexts(texts) ==
    IF texts = <<>> THEN ""
    ELSE IF Len(texts) = 1 THEN texts[1]
    ELSE texts[1] \o " " \o JoinTexts(Tail(texts))

\* get_transcript, lines 52-59: any exception becomes ""
TranscriptOf(resp) == IF resp.kind = "ok" THEN JoinTexts(resp.texts) ELSE ""

\* summarize_text, lines 61-76: any exception becomes ""
SummaryOf(resp) == IF resp.kind = "ok" THEN resp.content ELSE ""

TruthyAlways(text) == TRUE

\* line 121, `if transcript:`
Truthy(text) == text # ""

\* lines 124-129
SummaryRecord(video, summary) ==
    [Title |-> video.title, VideoID |-> video.video_id,
     ViewCount |-> video.view_count, Summary |-> summary]

RecordLinesNoViewCount(s) ==
    << "Title: " \o s.Title,
       "Video ID: " \o s.VideoID,
       "Summary:",
       s.Summary,
       "",
       "--------------------------------------------------",
       "" >>

\* lines 142-146: the lines one record adds to the file
RecordLines(s) ==
    << "Title: " \o s.Title,
       "Video ID: " \o s.VideoID,
       "View Count: " \o ToString(s.ViewCount),
       "Summary:",
       s.Summary,
       "",
       "--------------------------------------------------",
       "" >>

RECURSIVE AllRecordLines(_)
AllRecordLines(ss) ==
    IF ss = <<>> THEN <<>> ELSE RecordLines(Head(ss)) \o AllRecordLines(Tail(ss))

WriteFileAppend(old, ss) == [exists |-> TRUE, lines |-> old.lines \o AllRecordLines(ss)]

\* lines 140-146: open(..., "w") truncates, then one record per summary
WriteFile(old, ss) == [exists |-> TRUE, lines |-> AllRecordLines(ss)]

KeyMissingNever(key) == FALSE

\* line 91, `if not api_key:`
KeyMissing(key) == key = ""

LoopDoneEarly(k, vs) == k > 1 \/ k > Len(vs)

\* line 114: the for loop of main is exhausted
LoopDone(k, vs) == k > Len(vs)

Call(op, vid, resp) == [op |-> op, vid |-> vid, resp |-> resp]

Plain(kind) == [kind |-> kind]

(***************************************************************************)
(* State machine                                                           *)
(***************************************************************************)
Terminal == {"idle", "blocked", "untriggered", "no_videos", "exported", "raised"}

Init ==
    /\ pc = "idle"
    /\ api_key = ""
    /\ query = ""
    /\ num_videos = 1
    /\ button = FALSE
    /\ items = <<>>
    /\ idx = 0
    /\ videos = <<>>
    /\ i = 0
    /\ transcript = ""
    /\ summaries = <<>>
    /\ file = [exists |-> FALSE, lines |-> <<>>]
    /\ file_before = [exists |-> FALSE, lines |-> <<>>]
    /\ calls = <<>>

\* Streamlit (re)runs main() with the current widget values
Rerun ==
    /\ pc \in Terminal
    /\ pc' = "main"
    /\ api_key' \in {"", "key"}
    /\ query' \in {"", "AI tools news"}
    /\ num_videos' \in 1..MaxVideos
    /\ button' \in BOOLEAN
    /\ items' = <<>>
    /\ idx' = 0
    /\ videos' = <<>>
    /\ i' = 0
    /\ transcript' = ""
    /\ summaries' = <<>>
    /\ calls' = <<>>
    /\ file_before' = file
    /\ UNCHANGED file

\* lines 91-93
MissingKey ==
    /\ pc = "main"
    /\ KeyMissing(api_key)
    /\ pc' = "blocked"
    /\ UNCHANGED <<api_key, query, num_videos, button, items, idx, videos, i,
                   transcript, summaries, file, file_before, calls>>

\* line 101, button not pressed: main falls off its end
NotTriggered ==
    /\ pc = "main"
    /\ ~KeyMissing(api_key)
    /\ ~button
    /\ pc' = "untriggered"
    /\ UNCHANGED <<api_key, query, num_videos, button, items, idx, videos, i,
                   transcript, summaries, file, file_before, calls>>

\* lines 101-103 and 13: get_videos is entered, build() runs outside the try
Build ==
    /\ pc = "main"
    /\ ~KeyMissing(api_key)
    /\ button
    /\ \E kind \in {"ok"} \cup Failures :
          /\ calls' = Append(calls, Call("build", "", Plain(kind)))
          /\ pc' = IF kind = "ok" THEN "search" ELSE "raised"
    /\ UNCHANGED <<api_key, query, num_videos, button, items, idx, videos, i,
                   transcript, summaries, file, file_before>>

\* lines 15-23, and 47-49 when the search raises HttpError
Search ==
    /\ pc = "search"
    /\ \E resp \in SearchResponses(num_videos) :
          /\ calls' = Append(calls, Call("search", "", resp))
          /\ CASE resp.kind = "ok" ->
                    /\ items' = resp.items
                    /\ idx' = 1
                    /\ videos' = <<>>
                    /\ pc' = "filter"
               [] resp.kind = "HttpError" ->
                    /\ videos' = <<>>
                    /\ pc' = "got_videos"
                    /\ UNCHANGED <<items, idx>>
               [] OTHER ->
                    /\ pc' = "raised"
                    /\ UNCHANGED <<items, idx, videos>>
    /\ UNCHANGED <<api_key, query, num_videos, button, i, transcript, summaries, file, file_before>>

\* lines 24-25: a live item is skipped without a statistics lookup
SkipLive ==
    /\ pc = "filter"
    /\ idx <= Len(items)
    /\ ~NotLive(items[idx])
    /\ idx' = idx + 1
    /\ UNCHANGED <<pc, api_key, query, num_videos, button, items, videos, i,
                   transcript, summaries, file, file_before, calls>>

\* lines 24-44 for an item that is not live, and 47-49 on HttpError
Statistics ==
    /\ pc = "filter"
    /\ idx <= Len(items)
    /\ NotLive(items[idx])
    /\ \E resp \in StatsResponses :
          /\ calls' = Append(calls, Call("stats", items[idx].videoId, resp))
          /\ CASE resp.kind = "HttpError" ->
                    /\ videos' = <<>>
                    /\ pc' = "got_videos"
                    /\ UNCHANGED idx
               [] resp.kind = "Exception" ->
                    /\ pc' = "raised"
                    /\ UNCHANGED <<idx, videos>>
               [] resp.kind = "ok" /\ ~resp.found ->
                    /\ idx' = idx + 1
                    /\ UNCHANGED <<pc, videos>>
               [] resp.kind = "ok" /\ resp.found /\ ViewCountRaises(resp) ->
                    /\ pc' = "raised"
                    /\ UNCHANGED <<idx, videos>>
               [] OTHER ->
                    /\ videos' = IF PassesThreshold(ViewCountOf(resp))
                                 THEN Append(videos, Descriptor(items[idx], ViewCountOf(resp)))
                                 ELSE videos
                    /\ idx' = idx + 1
                    /\ UNCHANGED pc
    /\ UNCHANGED <<api_key, query, num_videos, button, items, i, transcript,
                   summaries, file, file_before>>

\* line 46
ReturnVideos ==
    /\ pc = "filter"
    /\ idx > Len(items)
    /\ pc' = "got_videos"
    /\ UNCHANGED <<api_key, query, num_videos, button, items, idx, videos, i,
                   transcript, summaries, file, file_before, calls>>

\* lines 105-107
NoVideos ==
    /\ pc = "got_videos"
    /\ videos = <<>>
    /\ pc' = "no_videos"
    /\ UNCHANGED <<api_key, query, num_videos, button, items, idx, videos, i,
                   transcript, summaries, file, file_before, calls>>

\* lines 109-114
StartLoop ==
    /\ pc = "got_videos"
    /\ videos # <<>>
    /\ summaries' = <<>>
    /\ i' = 1
    /\ pc' = "loop"
    /\ UNCHANGED <<api_key, query, num_videos, button, items, idx, videos,
                   transcript, file, file_before, calls>>

\* lines 114-121 and 132: get_transcript; an empty transcript ends the iteration
GetTranscript ==
    /\ pc = "loop"
    /\ ~LoopDone(i, videos)
    /\ \E resp \in TranscriptResponses :
          /\ calls' = Append(calls, Call("transcript", videos[i].video_id, resp))
          /\ transcript' = TranscriptOf(resp)
          /\ IF Truthy(TranscriptOf(resp))
             THEN pc' = "summarize" /\ UNCHANGED i
             ELSE pc' = "loop" /\ i' = i + 1
    /\ UNCHANGED <<api_key, query, num_videos, button, items, idx, videos,
                   summaries, file, file_before>>

\* lines 122-132: summarize_text, then the record is accumulated
Summarize ==
    /\ pc = "summarize"
    /\ \E resp \in SummaryResponses :
          /\ calls' = Append(calls, Call("summarize", videos[i].video_id, resp))
          /\ summaries' = Append(summaries, SummaryRecord(videos[i], SummaryOf(resp)))
    /\ i' = i + 1
    /\ pc' = "loop"
    /\ UNCHANGED <<api_key, query, num_videos, button, items, idx, videos,
                   transcript, file, file_before>>

\* lines 135-157: after the loop, summaries.txt is written
Export ==
    /\ pc = "loop"
    /\ LoopDone(i, videos)
    /\ file' = WriteFile(file, summaries)
    /\ calls' = Append(calls, Call("write", "", Plain("ok")))
    /\ pc' = "exported"
    /\ UNCHANGED <<api_key, query, num_videos, button, items, idx, videos, i,
                   transcript, summaries, file_before>>

Next ==
    \/ Rerun
    \/ MissingKey
    \/ NotTriggered
    \/ Build
    \/ Search
    \/ SkipLive
    \/ Statistics
    \/ ReturnVideos
    \/ NoVideos
    \/ StartLoop
    \/ GetTranscript
    \/ Summarize
    \/ Export

Spec == Init /\ [][Next]_vars

TypeOK ==
    /\ pc \in Terminal \cup {"main", "search", "filter", "got_videos", "loop", "summarize"}
    /\ num_videos \in 1..MaxVideos
    /\ Len(items) <= num_videos
    /\ Len(videos) <= Len(items)

(***************************************************************************)
(* Reading the call log                                                    *)
(***************************************************************************)
CallsOf(op) == SelectSeq(calls, LAMBDA c : c.op = op)

HasCall(op, vid) == \E k \in DOMAIN calls : calls[k].op = op /\ calls[k].vid = vid

RespOf(op, vid) ==
    calls[CHOOSE k \in DOMAIN calls : calls[k].op = op /\ calls[k].vid = vid].resp

\* the statistics answer for vid says more than 10000 views
StatsSayPopular(vid) ==
    /\ HasCall("stats", vid)
    /\ LET r == RespOf("stats", vid) IN
          /\ r.kind = "ok"
          /\ r.found
          /\ r.has
          /\ IsIntText(r.viewCount)
          /\ IntOfText(r.viewCount) > 10000

\* the candidates of the search response that pass both filters, as descriptors
PassingCandidates ==
    LET pass == SelectSeq(items, LAMBDA it :
                    it.liveBroadcastContent # "live" /\ StatsSayPopular(it.videoId))
    IN [k \in DOMAIN pass |->
           [title |-> pass[k].title, video_id |-> pass[k].videoId,
            view_count |-> IntOfText(RespOf("stats", pass[k].videoId).viewCount),
            thumbnail |-> pass[k].thumbnail]]

StatsFailed == \E k \in DOMAIN calls : calls[k].op = "stats" /\ calls[k].resp.kind \in Failures

\* the export template of one record
TemplateLines(title, id, n, summary) ==
    << "Title: " \o title, "Video ID: " \o id, "View Count: " \o ToString(n),
       "Summary:", summary, "", "--------------------------------------------------", "" >>

RECURSIVE Flatten(_)
Flatten(ss) == IF ss = <<>> THEN <<>> ELSE Head(ss) \o Flatten(Tail(ss))

\* the text get_transcript handed to main for vid
TranscriptGiven(vid) ==
    LET r == RespOf("transcript", vid) IN IF r.kind = "ok" THEN JoinTexts(r.texts) ELSE ""

\* the text summarize_text handed to main for vid
SummaryGiven(vid) ==
    LET r == RespOf("summarize", vid) IN IF r.kind = "ok" THEN r.content ELSE ""

HasRecord(vid) == \E k \in DOMAIN summaries : summaries[k].VideoID = vid

RecordOf(vid) == summaries[CHOOSE k \in DOMAIN summaries : summaries[k].VideoID = vid]

FileNames(vid) == \E k \in DOMAIN file.lines : file.lines[k] = "Video ID: " \o vid

(***************************************************************************)
(* Claims                                                                  *)
(***************************************************************************)

\* C1: every descriptor in the list get_videos builds and returns has
\* view_count strictly greater than 10000 and comes from a search item that
\* was not marked as a live broadcast.
C1_OutputIsPopularAndNotLive ==
    \A k \in DOMAIN videos :
        /\ videos[k].view_count > 10000
        /\ \E j \in DOMAIN items :
              /\ items[j].videoId = videos[k].video_id
              /\ items[j].liveBroadcastContent # "live"

\* C1 witness: get_videos returned a non-empty list although one candidate
\* had exactly 10000 views.
C1_Witness ==
    /\ pc = "got_videos"
    /\ videos # <<>>
    /\ \E k \in DOMAIN calls :
          /\ calls[k].op = "stats"
          /\ calls[k].resp.kind = "ok"
          /\ calls[k].resp.viewCount = <<"1", "0", "0", "0", "0">>

\* C2 (as claimed): the list get_videos returns is exactly the candidates
\* that pass both filters, in the order of the search response.
C2_ReturnsEveryPassingCandidateInOrder ==
    pc = "got_videos" => videos = PassingCandidates

\* C3 (as claimed): once the search succeeded, a failing statistics lookup
\* does not raise and costs only the candidate it was made for: the list
\* returned holds every other passing candidate.
C3_StatsFailureDropsOnlyThatCandidate ==
    StatsFailed =>
        /\ pc # "raised"
        /\ (pc = "got_videos" => videos = PassingCandidates)

\* C4 (as claimed): no collaborator failure leaves the script as an uncaught
\* error.
C4_NoUncaughtError == pc # "raised"

\* C5 (as claimed): after every triggered run that ended, a run without
\* videos included, the file holds exactly the records of that run.
C5_OverwrittenByEveryRun ==
    pc \in {"no_videos", "exported"} => file.lines = Flatten([k \in DOMAIN summaries |->
        TemplateLines(summaries[k].Title, summaries[k].VideoID,
                      summaries[k].ViewCount, summaries[k].Summary)])

\* C5 (amended): a run whose discovery returned at least one video ends with
\* the file holding exactly the records of that run and nothing of an earlier
\* run; a run whose discovery returned no video leaves the file as it was.
C5_OverwrittenByEveryExportingRun ==
    /\ (pc = "exported" =>
          /\ file.exists
          /\ file.lines = Flatten([k \in DOMAIN summaries |->
                TemplateLines(summaries[k].Title, summaries[k].VideoID,
                              summaries[k].ViewCount, summaries[k].Summary)]))
    /\ (pc = "no_videos" => file = file_before)

\* C5 witness: a run exported over a file that held records of an earlier
\* run, and the new content differs from the old.
C5_Witness ==
    /\ pc = "exported"
    /\ file_before.lines # <<>>
    /\ summaries # <<>>
    /\ file.lines # file_before.lines

\* C6 (as claimed): after a run that discovered videos, the file holds one
\* record per discovered video, in discovery order.
C6_OneRecordPerDiscoveredVideo ==
    pc = "exported" =>
        \E sums \in [DOMAIN videos -> {"", "A summary."}] :
            file.lines = Flatten([k \in DOMAIN videos |->
                TemplateLines(videos[k].title, videos[k].video_id,
                              videos[k].view_count, sums[k])])

\* C6 (amended): after a run that discovered videos, the file holds one
\* record per discovered video whose transcript was non-empty, in discovery
\* order, each with the title, id, view count and summary of that video in
\* the template (the summary is empty when summarisation failed).
C6_OneRecordPerTranscribedVideo ==
    pc = "exported" =>
        LET kept == SelectSeq(videos, LAMBDA v : TranscriptGiven(v.video_id) # "")
        IN file.lines = Flatten([k \in DOMAIN kept |->
               TemplateLines(kept[k].title, kept[k].video_id, kept[k].view_count,
                             SummaryGiven(kept[k].video_id))])

\* C6 witness: two videos were discovered, both transcripts were fetched and
\* the file holds two records.
C6_Witness ==
    /\ pc = "exported"
    /\ Len(videos) = 2
    /\ Len(summaries) = 2
    /\ Len(file.lines) = 16

\* C7 (as claimed): for an empty query the list get_videos returns is empty.
C7_EmptyQueryReturnsNothing ==
    (query = "" /\ pc = "got_videos") => videos = <<>>

\* C8: with an empty api_key no collaborator call is issued and the export
\* file is left as it was.
C8_MissingKeyBlocksRun ==
    api_key = "" => (calls = <<>> /\ file = file_before)

\* C8 witness: a run with the button pressed and an empty key ended blocked,
\* with the file of an earlier run still in place.
C8_Witness ==
    /\ pc = "blocked"
    /\ api_key = ""
    /\ button
    /\ file.exists
    /\ file.lines # <<>>

\* C9: in the call log of a run, search and statistics calls precede every
\* other kind of call but client construction; the transcript calls are for
\* the discovered videos in discovery order; a summary request directly
\* follows the transcript fetch of the same video; the file is written last,
\* after a transcript fetch for every discovered video.
C9_StrictSequentialOrder ==
    LET T == CallsOf("transcript") IN
    /\ \A a, b \in DOMAIN calls :
          (a < b /\ calls[b].op \in {"search", "stats"})
              => calls[a].op \in {"build", "search", "stats"}
    /\ Len(T) <= Len(videos)
    /\ \A k \in DOMAIN T : T[k].vid = videos[k].video_id
    /\ \A b \in DOMAIN calls :
          calls[b].op = "summarize"
              => (b > 1 /\ calls[b - 1].op = "transcript" /\ calls[b - 1].vid = calls[b].vid)
    /\ \A b \in DOMAIN calls :
          calls[b].op = "write" => (b = Len(calls) /\ Len(T) = Len(videos))

\* C9 witness: a run over two videos fetched and summarised both and wrote
\* the file.
C9_Witness ==
    /\ pc = "exported"
    /\ Len(videos) = 2
    /\ Len(CallsOf("stats")) = 2
    /\ Len(CallsOf("summarize")) = 2

\* C10: for every video whose iteration of the main loop is over, the
\* summariser was called iff the transcript was non-empty, a record was
\* accumulated iff the transcript was non-empty, the record of a failed
\* summarisation has an empty summary, and after the export the file names
\* exactly the videos with a record.
C10_RecordIffTranscript ==
    pc \in {"loop", "summarize", "exported"} =>
        \A k \in 1..(i - 1) :
            LET vid == videos[k].video_id IN
            /\ HasCall("transcript", vid)
            /\ (HasCall("summarize", vid) <=> TranscriptGiven(vid) # "")
            /\ (HasRecord(vid) <=> TranscriptGiven(vid) # "")
            /\ ((HasCall("summarize", vid) /\ RespOf("summarize", vid).kind \in Failures)
                  => RecordOf(vid).Summary = "")
            /\ (pc = "exported" => (FileNames(vid) <=> TranscriptGiven(vid) # ""))

\* C10 witness: after the export, one video had no transcript and no record,
\* another had a transcript, a failed summarisation and a record.
C10_Witness ==
    /\ pc = "exported"
    /\ \E k \in DOMAIN videos :
          TranscriptGiven(videos[k].video_id) = "" /\ ~FileNames(videos[k].video_id)
    /\ \E k \in DOMAIN videos :
          /\ HasCall("summarize", videos[k].video_id)
          /\ RespOf("summarize", videos[k].video_id).kind \in Failures
          /\ FileNames(videos[k].video_id)
====
